---- MODULE Spec2Model ----
(***************************************************************************)
(* Human-in-the-loop approval gateway of Windows-Use:                      *)
(*   windows_use/agent/hitl/service.py   classifier, policy, backends,     *)
(*                                       HITLApprovalService               *)
(*   windows_use/agent/registry/service.py   Registry.execute (the gate)   *)
(*   windows_use/slack/handlers.py, service.py   the Slack listeners and   *)
(*                                       the lock around agent.invoke      *)
(* One decision is followed step by step: each blocking call to the        *)
(* outside (custom approver, import of requests, requests.post, the        *)
(* console, Prompt.ask, the tool) is one action whose answer is chosen by  *)
(* the environment.                                                        *)
(***************************************************************************)
EXTENDS Integers, Sequences, FiniteSets, TLC

VARIABLES
    svc,                   \* "absent" | "ready" | "ctor_error" (HITLApprovalService.__init__)
    backend,               \* self.backend
    require_approval_for,  \* self.require_approval_for: [is_none, tools]
    min_risk_level,        \* self.min_risk_level
    custom_approver,       \* self.custom_approver is set
    approver,              \* self.approver: [kind, webhook_url, slack_token]
    pc,                    \* position of the one decision in progress
    caller,                \* "none" | "direct" | "registry"
    args,                  \* arguments of request_approval / execute
    request,               \* the ApprovalRequest built at lines 415-422
    trace,                 \* calls and log lines of the decision, in order
    depth,                 \* CLIApprovalBackend.request_approval frames on the stack
    slack_stage,           \* "none" | "try" | "except" (lines 281-307)
    last_input,            \* what the operator did at the last Prompt.ask
    elapsed,               \* time the last Prompt.ask took, against self.timeout
    cust_outcome,          \* what the custom approver did
    cli_outcome,           \* what the last CLIApprovalBackend.request_approval did
    backend_outcome,       \* what self.approver.request_approval did
    response,              \* what request_approval did
    tool_result,           \* what Registry.execute did
    tool_invocations,      \* calls of tool.invoke in this execute
    query,                 \* result of a direct call of a pure method
    th,                    \* Slack listener threads: what each handler call is doing
    lock                   \* SlackAgent._agent_lock: 0 when free, else the holding thread

gatewayvars == <<svc, backend, require_approval_for, min_risk_level, custom_approver,
                 approver, pc, caller, args, request, trace, depth,
                 slack_stage, last_input, elapsed, cust_outcome, cli_outcome, backend_outcome,
                 response, tool_result, tool_invocations, query>>

slackvars == <<th, lock>>

vars == <<gatewayvars, slackvars>>

config == <<backend, require_approval_for, min_risk_level, custom_approver, approver>>

callvars == <<pc, caller, args, request, trace, depth, slack_stage, last_input, elapsed,
              cust_outcome, cli_outcome, backend_outcome, response, tool_result,
              tool_invocations, query>>

----------------------------------------------------------------------------
(* Bounds *)

MaxShowMore == 1     \* "d" answers followed in one decision
MaxStep == 1         \* step numbers 1..MaxStep
NumThreads == 2      \* Slack listener threads running handlers at once

----------------------------------------------------------------------------
(* views.py *)

APPROVED == "approved"
REJECTED == "rejected"
TIMEOUT == "timeout"
ApprovalResult == {APPROVED, REJECTED, TIMEOUT}

CLI == "cli"
SLACK == "slack"
WEBHOOK == "webhook"
AUTO_APPROVE == "auto_approve"
ApprovalBackend == {CLI, SLACK, WEBHOOK, AUTO_APPROVE}

\* an ApprovalResponse, or the way a call ended without one
\* kind: "none" (nothing yet), "verdict", "error" (an Exception was raised),
\*       "abort" (KeyboardInterrupt was raised)
ApprovalResponse(result, message, approved_by) ==
    [kind |-> "verdict", result |-> result, message |-> message, approved_by |-> approved_by]

NoResponse == [kind |-> "none", result |-> "", message |-> "", approved_by |-> ""]
Raised(what) == [kind |-> "error", result |-> "", message |-> what, approved_by |-> ""]
Aborted == [kind |-> "abort", result |-> "", message |-> "KeyboardInterrupt", approved_by |-> ""]

ApprovalRequest(tool_name, tool_description, parameters, step_number, context, risk_level) ==
    [tool_name |-> tool_name, tool_description |-> tool_description,
     parameters |-> parameters, step_number |-> step_number,
     context |-> context, risk_level |-> risk_level]

NoRequest == ApprovalRequest("", <<>>, "", 0, "", "")

----------------------------------------------------------------------------
(* service.py: risk classification *)

CRITICAL_RISK_TOOLS == {"shell_tool"}
HIGH_RISK_TOOLS == {"app_tool", "memory_tool"}
MEDIUM_RISK_TOOLS == {"type_tool", "click_tool", "drag_tool", "shortcut_tool", "multi_edit_tool"}
LOW_RISK_TOOLS == {"scroll_tool", "move_tool", "wait_tool", "scrape_tool", "done_tool"}

\* mutant: the elif of line 62 is missing
get_tool_risk_level_NoMedium(tool_name) ==
    IF tool_name \in CRITICAL_RISK_TOOLS THEN "critical"
    ELSE IF tool_name \in HIGH_RISK_TOOLS THEN "high"
    ELSE "low"

get_tool_risk_level(tool_name) ==
    IF tool_name \in CRITICAL_RISK_TOOLS THEN "critical"
    ELSE IF tool_name \in HIGH_RISK_TOOLS THEN "high"
    ELSE IF tool_name \in MEDIUM_RISK_TOOLS THEN "medium"
    ELSE "low"

----------------------------------------------------------------------------
(* service.py: policy *)

\* risk_hierarchy.get(level, default)
\* mutant: a name that is not in the dictionary ranks lowest
risk_hierarchy_get_UnknownLowest(level, default) ==
    CASE level = "critical" -> 4
      [] level = "high" -> 3
      [] level = "medium" -> 2
      [] OTHER -> 1

\* risk_hierarchy.get(level, default), lines 366-368
risk_hierarchy_get(level, default) ==
    CASE level = "critical" -> 4
      [] level = "high" -> 3
      [] level = "medium" -> 2
      [] level = "low" -> 1
      [] OTHER -> default

NoneSet == [is_none |-> TRUE, tools |-> {}]
ExplicitSet(S) == [is_none |-> FALSE, tools |-> S]

\* mutant: "if self.require_approval_for:", an empty set counts as no set
requires_approval_of_EmptyAsNone(raf, mrl, tool_name, risk_level) ==
    IF ~raf.is_none /\ raf.tools # {}
    THEN tool_name \in raf.tools
    ELSE LET min_level == risk_hierarchy_get(mrl, 3)
             tool_level == risk_hierarchy_get(risk_level, 2)
         IN  tool_level >= min_level

\* mutant: the comparison is strict
requires_approval_of_Strict(raf, mrl, tool_name, risk_level) ==
    IF ~raf.is_none
    THEN tool_name \in raf.tools
    ELSE LET min_level == risk_hierarchy_get(mrl, 3)
             tool_level == risk_hierarchy_get(risk_level, 2)
         IN  tool_level > min_level

\* mutant: the threshold also applies when an explicit set is given
requires_approval_of_Both(raf, mrl, tool_name, risk_level) ==
    LET min_level == risk_hierarchy_get(mrl, 3)
        tool_level == risk_hierarchy_get(risk_level, 2)
    IN  (~raf.is_none /\ tool_name \in raf.tools) \/ tool_level >= min_level

requires_approval_of(raf, mrl, tool_name, risk_level) ==
    IF ~raf.is_none
    THEN tool_name \in raf.tools
    ELSE LET min_level == risk_hierarchy_get(mrl, 3)
             tool_level == risk_hierarchy_get(risk_level, 2)
         IN  tool_level >= min_level

requires_approval(tool_name, risk_level) ==
    requires_approval_of(require_approval_for, min_risk_level, tool_name, risk_level)

----------------------------------------------------------------------------
(* Inputs *)

Tiers == {"low", "medium", "high", "critical"}
\* tier arguments and thresholds, with one string that is no tier name
TierStrings == Tiers \cup {"severe"}

\* every name of the four static sets, and one name in none of them
ToolNames == CRITICAL_RISK_TOOLS \cup HIGH_RISK_TOOLS \cup MEDIUM_RISK_TOOLS
                 \cup LOW_RISK_TOOLS \cup {"unknown_tool"}

\* the tools the registry holds: one per tier and one unclassified
RegisteredTools == {"shell_tool", "app_tool", "click_tool", "scroll_tool", "unknown_tool"}
\* names a caller asks for; "missing_tool" is not registered
CallTools == RegisteredTools \cup {"missing_tool"}

\* explicit sets a gateway is built with
PolicyTools == {"shell_tool", "scroll_tool"}
PolicySets == {NoneSet} \cup {ExplicitSet(S) : S \in SUBSET PolicyTools}

Parameters == {"{command: dir}"}
Steps == 1..MaxStep
description(tool_name) == <<"description of", tool_name>>

\* what a custom approver may answer
CustomVerdicts ==
    {ApprovalResponse(r, "custom message", "custom_policy") : r \in ApprovalResult}

NoApprover == [kind |-> "None", webhook_url |-> FALSE, slack_token |-> FALSE]
CLIApprovalBackend ==
    [kind |-> "CLIApprovalBackend", webhook_url |-> FALSE, slack_token |-> FALSE]
SlackApprovalBackend(webhook_url, slack_token) ==
    [kind |-> "SlackApprovalBackend", webhook_url |-> webhook_url,
     slack_token |-> slack_token]

\* a listener thread of slack_bolt with no handler call in progress
Threads == 1..NumThreads
NoEvent == [bot_id |-> FALSE, channel_type |-> "", text |-> <<>>]
IdleThread == [pc |-> "idle", handler |-> "none", event |-> NoEvent, task |-> <<>>,
               says |-> <<>>, acquired |-> 0, invoked |-> 0, exit |-> "none"]

NoArgs == [tool_name |-> "", tool_description |-> <<>>, parameters |-> "",
           step_number |-> 0, context |-> ""]
NoToolResult == [kind |-> "none", is_success |-> FALSE, error |-> <<>>]
NoQuery == [method |-> "", tool_name |-> "", risk_level |-> "", required |-> FALSE]


----------------------------------------------------------------------------
Init ==
    /\ svc = "absent"
    /\ backend = CLI
    /\ require_approval_for = NoneSet
    /\ min_risk_level = "high"
    /\ custom_approver = FALSE
    /\ approver = NoApprover
    /\ pc = "idle"
    /\ caller = "none"
    /\ args = NoArgs
    /\ request = NoRequest
    /\ trace = <<>>
    /\ depth = 0
    /\ slack_stage = "none"
    /\ last_input = "none"
    /\ elapsed = "none"
    /\ cust_outcome = NoResponse
    /\ cli_outcome = NoResponse
    /\ backend_outcome = NoResponse
    /\ response = NoResponse
    /\ tool_result = NoToolResult
    /\ tool_invocations = 0
    /\ query = NoQuery
    /\ th = [t \in Threads |-> IdleThread]
    /\ lock = 0

\* mutant: the test of line 341 is missing
Construct_NoCheck(b, raf, mrl, url, token, cust) ==
    /\ svc = "absent"
    /\ pc = "idle"
    /\ svc' = "ready"
    /\ approver' = CASE b = CLI -> CLIApprovalBackend
                      [] b = SLACK -> SlackApprovalBackend(url, token)
                      [] b = AUTO_APPROVE -> NoApprover
                      [] OTHER -> CLIApprovalBackend
    /\ backend' = b
    /\ require_approval_for' = raf
    /\ min_risk_level' = mrl
    /\ custom_approver' = cust
    /\ UNCHANGED callvars
    /\ UNCHANGED slackvars

\* mutant: no else branch, a backend without a branch of its own gets none
Construct_NoDefaultBackend(b, raf, mrl, url, token, cust) ==
    /\ svc = "absent"
    /\ pc = "idle"
    /\ IF b = SLACK /\ ~url
       THEN /\ svc' = "ctor_error"
            /\ approver' = NoApprover
       ELSE /\ svc' = "ready"
            /\ approver' = CASE b = CLI -> CLIApprovalBackend
                             [] b = SLACK -> SlackApprovalBackend(url, token)
                             [] OTHER -> NoApprover
    /\ backend' = b
    /\ require_approval_for' = raf
    /\ min_risk_level' = mrl
    /\ custom_approver' = cust
    /\ UNCHANGED callvars
    /\ UNCHANGED slackvars

\* mutant: the WEBHOOK backend gets the Slack backend
Construct_WebhookAsSlack(b, raf, mrl, url, token, cust) ==
    /\ svc = "absent"
    /\ pc = "idle"
    /\ IF b = SLACK /\ ~url
       THEN /\ svc' = "ctor_error"
            /\ approver' = NoApprover
       ELSE /\ svc' = "ready"
            /\ approver' = CASE b = CLI -> CLIApprovalBackend
                             [] b = SLACK -> SlackApprovalBackend(url, token)
                             [] b = AUTO_APPROVE -> NoApprover
                             [] OTHER -> SlackApprovalBackend(url, token)
    /\ backend' = b
    /\ require_approval_for' = raf
    /\ min_risk_level' = mrl
    /\ custom_approver' = cust
    /\ UNCHANGED callvars
    /\ UNCHANGED slackvars

\* HITLApprovalService.__init__; url and token say whether slack_webhook_url and
\* slack_token are given (truthy)
Construct(b, raf, mrl, url, token, cust) ==
    /\ svc = "absent"
    /\ pc = "idle"
    /\ IF b = SLACK /\ ~url
       THEN /\ svc' = "ctor_error"
            /\ approver' = NoApprover
       ELSE /\ svc' = "ready"
            /\ approver' = CASE b = CLI -> CLIApprovalBackend
                             [] b = SLACK -> SlackApprovalBackend(url, token)
                             [] b = AUTO_APPROVE -> NoApprover
                             [] OTHER -> CLIApprovalBackend
    /\ backend' = b
    /\ require_approval_for' = raf
    /\ min_risk_level' = mrl
    /\ custom_approver' = cust
    /\ UNCHANGED callvars
    /\ UNCHANGED slackvars

----------------------------------------------------------------------------
(* Direct calls of the pure functions *)

\* get_tool_risk_level(tool_name)
ClassifyCall(tool_name) ==
    /\ pc = "idle"
    /\ query' = [method |-> "get_tool_risk_level", tool_name |-> tool_name,
                 risk_level |-> get_tool_risk_level(tool_name), required |-> FALSE]
    /\ pc' = "queried"
    /\ UNCHANGED <<svc, config, caller, args, request, trace, depth,
                   slack_stage, last_input, elapsed, cust_outcome, cli_outcome, backend_outcome, response,
                   tool_result, tool_invocations>>
    /\ UNCHANGED slackvars

\* HITLApprovalService.requires_approval(tool_name, risk_level)
RequiresApprovalCall(tool_name, risk_level) ==
    /\ pc = "idle"
    /\ svc = "ready"
    /\ query' = [method |-> "requires_approval", tool_name |-> tool_name,
                 risk_level |-> risk_level,
                 required |-> requires_approval(tool_name, risk_level)]
    /\ pc' = "queried"
    /\ UNCHANGED <<svc, config, caller, args, request, trace, depth,
                   slack_stage, last_input, elapsed, cust_outcome, cli_outcome, backend_outcome, response,
                   tool_result, tool_invocations>>
    /\ UNCHANGED slackvars

----------------------------------------------------------------------------
(* HITLApprovalService.request_approval, lines 392-422 *)

AutoApproved == ApprovalResponse(APPROVED, "Auto-approved", "system")

\* mutant: the message of line 409 is the one of line 396
AutoApprovedLowRisk_Untagged == ApprovalResponse(APPROVED, "Auto-approved", "system")

\* the literals of lines 396 and 409 as the pieces they are written from
message_parts(message) ==
    IF message = "Auto-approved (low risk)"
    THEN <<"Auto-approved", " (low risk)">>
    ELSE <<message>>

AutoApprovedLowRisk == ApprovalResponse(APPROVED, "Auto-approved (low risk)", "system")

\* mutant: an explicit set takes precedence over the AUTO_APPROVE backend
auto_approve_selected_UnlessSet == backend = AUTO_APPROVE /\ require_approval_for.is_none

\* line 393
auto_approve_selected == backend = AUTO_APPROVE

\* mutant: risk_level is not passed and the field keeps its default (views.py
\* line 33)
BuildRequest_DefaultTier(a) ==
    ApprovalRequest(a.tool_name, a.tool_description, a.parameters, a.step_number,
                    a.context, "medium")

\* the request built for the arguments a
BuildRequest(a) ==
    ApprovalRequest(a.tool_name, a.tool_description, a.parameters, a.step_number,
                    a.context, get_tool_risk_level(a.tool_name))

\* mutant: a configured custom approver is asked before the policy is looked at
EnterRequestApproval_CustomFirst(a) ==
    IF auto_approve_selected
    THEN /\ response' = AutoApproved
         /\ request' = NoRequest
         /\ trace' = trace \o <<"request_approval">>
         /\ pc' = "ra_return"
    ELSE IF custom_approver
    THEN /\ response' = NoResponse
         /\ request' = BuildRequest(a)
         /\ trace' = trace \o <<"request_approval", "classify">>
         /\ pc' = "custom"
    ELSE IF ~requires_approval(a.tool_name, get_tool_risk_level(a.tool_name))
    THEN /\ response' = AutoApprovedLowRisk
         /\ request' = NoRequest
         /\ trace' = trace \o <<"request_approval", "classify", "policy",
                                "log: does not require approval">>
         /\ pc' = "ra_return"
    ELSE /\ response' = NoResponse
         /\ request' = BuildRequest(a)
         /\ trace' = trace \o <<"request_approval", "classify", "policy">>
         /\ pc' = "backend"

\* the part of request_approval that runs before anything outside is called
EnterRequestApproval(a) ==
    IF auto_approve_selected
    THEN /\ response' = AutoApproved
         /\ request' = NoRequest
         /\ trace' = trace \o <<"request_approval">>
         /\ pc' = "ra_return"
    ELSE IF ~requires_approval(a.tool_name, get_tool_risk_level(a.tool_name))
    THEN /\ response' = AutoApprovedLowRisk
         /\ request' = NoRequest
         /\ trace' = trace \o <<"request_approval", "classify", "policy",
                                "log: does not require approval">>
         /\ pc' = "ra_return"
    ELSE /\ response' = NoResponse
         /\ request' = BuildRequest(a)
         /\ trace' = trace \o <<"request_approval", "classify", "policy">>
         /\ pc' = IF custom_approver THEN "custom" ELSE "backend"

\* a caller other than the registry calls request_approval
RequestApproval(tool_name, parameters, step_number, context) ==
    /\ pc = "idle"
    /\ svc = "ready"
    /\ caller' = "direct"
    /\ args' = [tool_name |-> tool_name, tool_description |-> description(tool_name),
                parameters |-> parameters, step_number |-> step_number,
                context |-> context]
    /\ EnterRequestApproval(args')
    /\ UNCHANGED <<svc, config, depth, slack_stage, last_input, elapsed,
                   cust_outcome, cli_outcome, backend_outcome, tool_result, tool_invocations, query>>
    /\ UNCHANGED slackvars

----------------------------------------------------------------------------
(* Registry.execute, lines 43-55 *)

\* Registry.hitl_service: the registry holds the gateway once there is one,
\* and None before
hitl_service == svc = "ready"

\* error is the text of ToolResult.error as the sequence of its parts: the
\* literal pieces of the f-string and the values formatted into it
ToolResult(is_success, text) == [kind |-> "result", is_success |-> is_success, error |-> text]
ExecuteRaised == [kind |-> "raised", is_success |-> FALSE, error |-> <<>>]

\* mutant: the gateway is asked before the tool is looked up
Execute_GateBeforeLookup(tool_name, parameters, step_number) ==
    /\ pc = "idle"
    /\ caller' = "registry"
    /\ args' = [tool_name |-> tool_name, tool_description |-> description(tool_name),
                parameters |-> parameters, step_number |-> step_number,
                context |-> "Agent requesting to execute"]
    /\ IF hitl_service
       THEN /\ EnterRequestApproval(args')
            /\ UNCHANGED tool_result
       ELSE IF tool_name \notin RegisteredTools
       THEN /\ tool_result' = ToolResult(FALSE, <<"Tool '", tool_name, "' not found.">>)
            /\ pc' = "done"
            /\ UNCHANGED <<request, trace, response>>
       ELSE /\ pc' = "tool"
            /\ UNCHANGED <<request, trace, response, tool_result>>
    /\ UNCHANGED <<svc, config, depth, slack_stage, last_input, elapsed,
                   cust_outcome, cli_outcome, backend_outcome, tool_invocations, query>>
    /\ UNCHANGED slackvars

\* Registry.execute, lines 36-55: the lookup of the tool and the call of the
\* gateway
Execute(tool_name, parameters, step_number) ==
    /\ pc = "idle"
    /\ caller' = "registry"
    /\ args' = [tool_name |-> tool_name, tool_description |-> description(tool_name),
                parameters |-> parameters, step_number |-> step_number,
                context |-> "Agent requesting to execute"]
    /\ IF tool_name \notin RegisteredTools
       THEN /\ tool_result' = ToolResult(FALSE, <<"Tool '", tool_name, "' not found.">>)
            /\ pc' = "done"
            /\ UNCHANGED <<request, trace, response>>
       ELSE IF hitl_service
       THEN /\ EnterRequestApproval(args')
            /\ UNCHANGED tool_result
       ELSE /\ pc' = "tool"
            /\ UNCHANGED <<request, trace, response, tool_result>>
    /\ UNCHANGED <<svc, config, depth, slack_stage, last_input, elapsed,
                   cust_outcome, cli_outcome, backend_outcome, tool_invocations, query>>
    /\ UNCHANGED slackvars

----------------------------------------------------------------------------
(* HITLApprovalService.request_approval, lines 424-438 *)

\* mutant: the answer is kept but not returned, and the backend is asked
CustomApproverReturns_FallsThrough(v) ==
    /\ pc = "custom"
    /\ cust_outcome' = v
    /\ trace' = trace \o <<"custom_approver">>
    /\ pc' = "backend"
    /\ UNCHANGED <<svc, config, caller, args, request, depth, slack_stage, last_input, elapsed,
                   cli_outcome, backend_outcome, response, tool_result,
                   tool_invocations, query>>
    /\ UNCHANGED slackvars

\* line 427: the custom approver answers, and its answer is returned
CustomApproverReturns(v) ==
    /\ pc = "custom"
    /\ cust_outcome' = v
    /\ response' = v
    /\ trace' = trace \o <<"custom_approver">>
    /\ pc' = "ra_return"
    /\ UNCHANGED <<svc, config, caller, args, request, depth, slack_stage, last_input, elapsed,
                   cli_outcome, backend_outcome, tool_result, tool_invocations, query>>
    /\ UNCHANGED slackvars

\* mutant: no except clause, the Exception leaves request_approval
CustomApproverFails_Propagates ==
    /\ pc = "custom"
    /\ cust_outcome' = Raised("custom approver")
    /\ response' = Raised("custom approver")
    /\ trace' = trace \o <<"custom_approver">>
    /\ pc' = "ra_return"
    /\ UNCHANGED <<svc, config, caller, args, request, depth, slack_stage, last_input, elapsed,
                   cli_outcome, backend_outcome, tool_result, tool_invocations, query>>
    /\ UNCHANGED slackvars

\* mutant: a custom approver that failed once is dropped from the gateway
CustomApproverFails_DropsApprover ==
    /\ pc = "custom"
    /\ cust_outcome' = Raised("custom approver")
    /\ trace' = trace \o <<"custom_approver", "log: custom approver failed">>
    /\ pc' = "backend"
    /\ custom_approver' = FALSE
    /\ UNCHANGED <<svc, backend, require_approval_for, min_risk_level, approver,
                   caller, args, request, depth, slack_stage, last_input, elapsed,
                   cli_outcome, backend_outcome, response, tool_result,
                   tool_invocations, query>>
    /\ UNCHANGED slackvars

\* lines 428-429: the custom approver raises an Exception, which is logged
CustomApproverFails ==
    /\ pc = "custom"
    /\ cust_outcome' = Raised("custom approver")
    /\ trace' = trace \o <<"custom_approver", "log: custom approver failed">>
    /\ pc' = "backend"
    /\ UNCHANGED <<svc, config, caller, args, request, depth, slack_stage, last_input, elapsed,
                   cli_outcome, backend_outcome, response, tool_result,
                   tool_invocations, query>>
    /\ UNCHANGED slackvars

\* KeyboardInterrupt while the custom approver runs: not an Exception, so
\* line 428 does not catch it
CustomApproverAborted ==
    /\ pc = "custom"
    /\ cust_outcome' = Aborted
    /\ response' = Aborted
    /\ trace' = trace \o <<"custom_approver">>
    /\ pc' = "ra_return"
    /\ UNCHANGED <<svc, config, caller, args, request, depth, slack_stage, last_input, elapsed,
                   cli_outcome, backend_outcome, tool_result, tool_invocations, query>>
    /\ UNCHANGED slackvars

\* lines 432-433: self.approver.request_approval(request) is called
DelegateToBackend ==
    /\ pc = "backend"
    /\ CASE approver.kind = "CLIApprovalBackend" ->
              /\ trace' = trace \o <<"log: requesting approval", "backend", "cli">>
              /\ depth' = 1
              /\ pc' = "cli_display"
              /\ UNCHANGED <<backend_outcome, response>>
         [] approver.kind = "SlackApprovalBackend" ->
              /\ trace' = trace \o <<"log: requesting approval", "backend">>
              /\ pc' = "slack_import"
              /\ UNCHANGED <<depth, backend_outcome, response>>
         [] OTHER ->
              \* None has no request_approval
              /\ trace' = trace \o <<"log: requesting approval">>
              /\ backend_outcome' = Raised("AttributeError")
              /\ response' = Raised("AttributeError")
              /\ pc' = "ra_return"
              /\ UNCHANGED depth
    /\ UNCHANGED <<svc, config, caller, args, request, slack_stage, last_input, elapsed,
                   cust_outcome, cli_outcome, tool_result, tool_invocations, query>>
    /\ UNCHANGED slackvars

\* mutant: the verdict is rebuilt with the gateway as the approver
BackendReturns_Relabels(v) ==
    /\ backend_outcome' = v
    /\ response' = [v EXCEPT !.approved_by = "system"]
    /\ pc' = "ra_return"

\* the backend returned v: lines 435-438 log the decision and return it
BackendReturns(v) ==
    /\ backend_outcome' = v
    /\ response' = v
    /\ pc' = "ra_return"

\* the backend raised: nothing in request_approval catches it
BackendRaises(e) ==
    /\ backend_outcome' = e
    /\ response' = e
    /\ pc' = "ra_return"

----------------------------------------------------------------------------
(* SlackApprovalBackend.request_approval *)

\* mutant: the missing library is taken for an approval
SlackUnavailable_Approves == ApprovalResponse(APPROVED, "Slack integration not available", "system")

SlackUnavailable == ApprovalResponse(REJECTED, "Slack integration not available", "system")

\* mutant: without the library the backend goes on to the CLI backend
SlackImport_FallsBackToCLI(ok) ==
    /\ pc = "slack_import"
    /\ IF ok
       THEN /\ trace' = trace \o <<"import requests">>
            /\ pc' = "slack_post"
            /\ UNCHANGED depth
       ELSE /\ trace' = trace \o <<"import requests", "log: requests required", "cli">>
            /\ pc' = "cli_display"
            /\ depth' = 1
    /\ UNCHANGED <<svc, config, caller, args, request, slack_stage, last_input, elapsed,
                   cust_outcome, cli_outcome, backend_outcome, response, tool_result,
                   tool_invocations, query>>
    /\ UNCHANGED slackvars

\* lines 190-199: import requests
SlackImport(ok) ==
    /\ pc = "slack_import"
    /\ IF ok
       THEN /\ trace' = trace \o <<"import requests">>
            /\ pc' = "slack_post"
            /\ UNCHANGED <<backend_outcome, response>>
       ELSE /\ trace' = trace \o <<"import requests", "log: requests required",
                                   "log: decision">>
            /\ BackendReturns(SlackUnavailable)
    /\ UNCHANGED <<svc, config, caller, args, request, depth, slack_stage, last_input, elapsed,
                   cust_outcome, cli_outcome, tool_result, tool_invocations, query>>
    /\ UNCHANGED slackvars

\* the message of lines 214-278 carries the buttons when a token is set
PostEvent == IF approver.slack_token THEN "post with buttons" ELSE "post"

\* mutant: a failed send is tried a second time before the fallback
SlackPost_RetriesSend(sent) ==
    /\ pc = "slack_post"
    /\ CASE sent = "ok" ->
              /\ trace' = trace \o <<PostEvent, "log: sent to Slack", "cli">>
              /\ slack_stage' = "try"
              /\ depth' = 1
              /\ pc' = "cli_display"
              /\ UNCHANGED <<backend_outcome, response>>
         [] sent = "failed" ->
              /\ trace' = trace \o <<PostEvent, PostEvent, "log: failed to send", "cli">>
              /\ slack_stage' = "except"
              /\ depth' = 1
              /\ pc' = "cli_display"
              /\ UNCHANGED <<backend_outcome, response>>
         [] OTHER ->
              /\ trace' = trace \o <<PostEvent>>
              /\ BackendRaises(Aborted)
              /\ UNCHANGED <<slack_stage, depth>>
    /\ UNCHANGED <<svc, config, caller, args, request, last_input, elapsed, cust_outcome,
                   cli_outcome, tool_result, tool_invocations, query>>
    /\ UNCHANGED slackvars

\* mutant: a failed send ends the decision with a rejection
SlackPost_FailureRejects(sent) ==
    /\ pc = "slack_post"
    /\ CASE sent = "ok" ->
              /\ trace' = trace \o <<PostEvent, "log: sent to Slack", "cli">>
              /\ slack_stage' = "try"
              /\ depth' = 1
              /\ pc' = "cli_display"
              /\ UNCHANGED <<backend_outcome, response>>
         [] sent = "failed" ->
              /\ trace' = trace \o <<PostEvent, "log: failed to send", "log: decision">>
              /\ BackendReturns(ApprovalResponse(REJECTED, "Failed to send", "system"))
              /\ UNCHANGED <<slack_stage, depth>>
         [] OTHER ->
              /\ trace' = trace \o <<PostEvent>>
              /\ BackendRaises(Aborted)
              /\ UNCHANGED <<slack_stage, depth>>
    /\ UNCHANGED <<svc, config, caller, args, request, last_input, elapsed, cust_outcome,
                   cli_outcome, tool_result, tool_invocations, query>>
    /\ UNCHANGED slackvars

\* mutant: with a token the backend waits for a button press that nothing in
\* the program receives (the TODO of line 293 done without a callback server)
SlackPost_WaitsForCallback(sent) ==
    /\ pc = "slack_post"
    /\ CASE sent = "ok" ->
              /\ trace' = trace \o <<PostEvent, "log: sent to Slack">>
              /\ slack_stage' = "try"
              /\ IF approver.slack_token
                 THEN /\ pc' = "slack_wait"
                      /\ UNCHANGED depth
                 ELSE /\ pc' = "cli_display"
                      /\ depth' = 1
              /\ UNCHANGED <<backend_outcome, response>>
         [] sent = "failed" ->
              /\ trace' = trace \o <<PostEvent, "log: failed to send", "cli">>
              /\ slack_stage' = "except"
              /\ depth' = 1
              /\ pc' = "cli_display"
              /\ UNCHANGED <<backend_outcome, response>>
         [] OTHER ->
              /\ trace' = trace \o <<PostEvent>>
              /\ BackendRaises(Aborted)
              /\ UNCHANGED <<slack_stage, depth>>
    /\ UNCHANGED <<svc, config, caller, args, request, last_input, elapsed, cust_outcome,
                   cli_outcome, tool_result, tool_invocations, query>>
    /\ UNCHANGED slackvars

\* lines 281-307: requests.post and raise_for_status; sent is "ok", "failed"
\* (any Exception) or "abort" (KeyboardInterrupt, which line 304 does not catch)
SlackPost(sent) ==
    /\ pc = "slack_post"
    /\ CASE sent = "ok" ->
              /\ trace' = trace \o <<PostEvent, "log: sent to Slack", "cli">>
              /\ slack_stage' = "try"
              /\ depth' = 1
              /\ pc' = "cli_display"
              /\ UNCHANGED <<backend_outcome, response>>
         [] sent = "failed" ->
              /\ trace' = trace \o <<PostEvent, "log: failed to send", "cli">>
              /\ slack_stage' = "except"
              /\ depth' = 1
              /\ pc' = "cli_display"
              /\ UNCHANGED <<backend_outcome, response>>
         [] OTHER ->
              /\ trace' = trace \o <<PostEvent>>
              /\ BackendRaises(Aborted)
              /\ UNCHANGED <<slack_stage, depth>>
    /\ UNCHANGED <<svc, config, caller, args, request, last_input, elapsed, cust_outcome,
                   cli_outcome, tool_result, tool_invocations, query>>
    /\ UNCHANGED slackvars

----------------------------------------------------------------------------
(* CLIApprovalBackend.request_approval *)

ApprovedViaCLI == ApprovalResponse(APPROVED, "Approved via CLI", "human")
RejectedViaCLI == ApprovalResponse(REJECTED, "Rejected via CLI", "human")
InterruptedByUser == ApprovalResponse(REJECTED, "Interrupted by user", "human")

\* the CLI backend returned v through all its frames (line 145); the Slack
\* backend returns what it got (lines 298, 302, 307), and so does the service
CLIReturns(v, events) ==
    /\ cli_outcome' = v
    /\ depth' = 0
    /\ trace' = trace \o events \o <<"log: decision">>
    /\ BackendReturns(v)
    /\ UNCHANGED slack_stage

\* the CLI backend raised the Exception e. No CLI frame catches it; in the
\* try of the Slack backend line 304 catches it and line 307 calls a new CLI
\* backend; anywhere else it leaves the backend
CLIRaises(e, events) ==
    /\ cli_outcome' = e
    /\ IF slack_stage = "try"
       THEN /\ trace' = trace \o events \o <<"log: failed to send", "cli">>
            /\ slack_stage' = "except"
            /\ depth' = 1
            /\ pc' = "cli_display"
            /\ UNCHANGED <<backend_outcome, response>>
       ELSE /\ trace' = trace \o events
            /\ depth' = 0
            /\ BackendRaises(e)
            /\ UNCHANGED slack_stage

\* lines 88-121 (and 142-143 of the frame below): the panel is printed, or
\* printing raises an Exception
CLIDisplay(ok) ==
    /\ pc = "cli_display"
    /\ IF ok
       THEN /\ trace' = trace \o <<"display">>
            /\ pc' = "cli_prompt"
            /\ UNCHANGED <<depth, slack_stage, cli_outcome, backend_outcome, response>>
       ELSE CLIRaises(Raised("console"), <<"display failed">>)
    /\ UNCHANGED <<svc, config, caller, args, request, last_input, elapsed, cust_outcome,
                   tool_result, tool_invocations, query>>
    /\ UNCHANGED slackvars

\* what the operator may do at the prompt: type one of the choices, press
\* Enter on an empty line, or interrupt; any other text is asked again by
\* Prompt.ask itself
Interruptions == {"KeyboardInterrupt", "EOFError"}
OperatorInputs == {"y", "n", "d", ""} \cup Interruptions

\* lines 125-131: Prompt.ask(choices=["y", "n", "d"], default="y") gives the
\* default for an empty line
PromptAsk(input) == IF input = "" THEN "y" ELSE input

\* mutant: end of input is not caught
cli_catches_KeyboardInterruptOnly(e) == e = "KeyboardInterrupt"

\* line 154: except (KeyboardInterrupt, EOFError)
cli_catches(e) == e \in {"KeyboardInterrupt", "EOFError"}

\* how long Prompt.ask blocked, against the wait budget self.timeout (line 77,
\* 60 seconds unless the backend is built with another value)
WaitTimes == {"within timeout", "beyond timeout"}

\* mutant: the wait budget is enforced, a late answer gives TIMEOUT
CLIPrompt_EnforcesTimeout(input, took) ==
    /\ pc = "cli_prompt"
    /\ last_input' = input
    /\ elapsed' = took
    /\ IF took = "beyond timeout"
       THEN CLIReturns(ApprovalResponse(TIMEOUT, "Approval timed out", "system"),
                       <<"prompt">>)
       ELSE IF input \in Interruptions
       THEN IF cli_catches(input)
            THEN CLIReturns(InterruptedByUser, <<"prompt", "log: interrupted">>)
            ELSE CLIRaises(Raised(input), <<"prompt">>)
       ELSE LET choice == PromptAsk(input) IN
            CASE choice = "y" -> CLIReturns(ApprovedViaCLI, <<"prompt">>)
              [] choice = "d" ->
                   /\ depth <= MaxShowMore
                   /\ trace' = trace \o <<"prompt", "show parameters", "cli">>
                   /\ depth' = depth + 1
                   /\ pc' = "cli_display"
                   /\ UNCHANGED <<slack_stage, cli_outcome, backend_outcome, response>>
              [] OTHER -> CLIReturns(RejectedViaCLI, <<"prompt">>)
    /\ UNCHANGED <<svc, config, caller, args, request, cust_outcome, tool_result,
                   tool_invocations, query>>
    /\ UNCHANGED slackvars

\* lines 124-161: the prompt and the branch on the choice; took is the time
\* the operator needed, which no line of the backend reads
CLIPrompt(input, took) ==
    /\ pc = "cli_prompt"
    /\ last_input' = input
    /\ elapsed' = took
    /\ IF input \in Interruptions
       THEN IF cli_catches(input)
            THEN CLIReturns(InterruptedByUser, <<"prompt", "log: interrupted">>)
            ELSE CLIRaises(Raised(input), <<"prompt">>)
       ELSE LET choice == PromptAsk(input) IN
            CASE choice = "y" -> CLIReturns(ApprovedViaCLI, <<"prompt">>)
              [] choice = "d" ->
                   /\ depth <= MaxShowMore
                   /\ trace' = trace \o <<"prompt", "show parameters", "cli">>
                   /\ depth' = depth + 1
                   /\ pc' = "cli_display"
                   /\ UNCHANGED <<slack_stage, cli_outcome, backend_outcome, response>>
              [] OTHER -> CLIReturns(RejectedViaCLI, <<"prompt">>)
    /\ UNCHANGED <<svc, config, caller, args, request, cust_outcome, tool_result,
                   tool_invocations, query>>
    /\ UNCHANGED slackvars

----------------------------------------------------------------------------
(* Back in the caller *)

\* request_approval is over for a caller other than the registry
ReturnToCaller ==
    /\ pc = "ra_return"
    /\ caller = "direct"
    /\ pc' = "done"
    /\ UNCHANGED <<svc, config, caller, args, request, trace, depth,
                   slack_stage, last_input, elapsed, cust_outcome, cli_outcome, backend_outcome, response,
                   tool_result, tool_invocations, query>>
    /\ UNCHANGED slackvars

\* mutant: the elif of line 65 is missing
gate_branch_NoTimeout(approval_response) ==
    IF approval_response.result = REJECTED THEN "rejected" ELSE "proceed"

\* lines 57 and 65: the if / elif on approval_response.result
gate_branch(approval_response) ==
    IF approval_response.result = REJECTED THEN "rejected"
    ELSE IF approval_response.result = TIMEOUT THEN "timeout"
    ELSE "proceed"

\* Registry.execute, lines 57-73: the branch on approval_response.result
ExecuteAfterApproval ==
    /\ pc = "ra_return"
    /\ caller = "registry"
    /\ IF response.kind # "verdict"
       THEN \* request_approval raised, and so does execute
            /\ tool_result' = ExecuteRaised
            /\ pc' = "done"
            /\ UNCHANGED trace
       ELSE IF gate_branch(response) = "rejected"
       THEN /\ tool_result' = ToolResult(FALSE,
                                <<"Tool execution rejected by human approval: ",
                                  response.message>>)
            /\ pc' = "done"
            /\ trace' = trace \o <<"log: tool execution rejected">>
       ELSE IF gate_branch(response) = "timeout"
       THEN /\ tool_result' = ToolResult(FALSE, <<"Tool execution approval timed out">>)
            /\ pc' = "done"
            /\ trace' = trace \o <<"log: tool execution timed out">>
       ELSE /\ pc' = "tool"
            /\ trace' = trace \o <<"log: tool execution approved">>
            /\ UNCHANGED tool_result
    /\ UNCHANGED <<svc, config, caller, args, request, depth, slack_stage,
                   last_input, elapsed, cust_outcome, cli_outcome, backend_outcome, response,
                   tool_invocations, query>>
    /\ UNCHANGED slackvars

ToolOutcomes == {"ok", "invalid arguments", "tool failed"}

\* Registry.execute, lines 75-80: validation of the arguments and tool.invoke
InvokeTool(outcome) ==
    /\ pc = "tool"
    /\ CASE outcome = "ok" ->
              /\ tool_invocations' = tool_invocations + 1
              /\ trace' = trace \o <<"tool.invoke">>
              /\ tool_result' = ToolResult(TRUE, <<>>)
         [] outcome = "tool failed" ->
              /\ tool_invocations' = tool_invocations + 1
              /\ trace' = trace \o <<"tool.invoke">>
              /\ tool_result' = ToolResult(FALSE, <<"tool failed">>)
         [] OTHER ->
              /\ tool_result' = ToolResult(FALSE, <<"invalid arguments">>)
              /\ UNCHANGED <<tool_invocations, trace>>
    /\ pc' = "done"
    /\ UNCHANGED <<svc, config, caller, args, request, depth, slack_stage,
                   last_input, elapsed, cust_outcome, cli_outcome, backend_outcome, response, query>>
    /\ UNCHANGED slackvars

\* the call is over; the next one starts from the gateway as constructed
Reset ==
    /\ pc \in {"done", "queried"}
    /\ pc' = "idle"
    /\ caller' = "none"
    /\ args' = NoArgs
    /\ request' = NoRequest
    /\ trace' = <<>>
    /\ depth' = 0
    /\ slack_stage' = "none"
    /\ last_input' = "none"
    /\ elapsed' = "none"
    /\ cust_outcome' = NoResponse
    /\ cli_outcome' = NoResponse
    /\ backend_outcome' = NoResponse
    /\ response' = NoResponse
    /\ tool_result' = NoToolResult
    /\ tool_invocations' = 0
    /\ query' = NoQuery
    /\ UNCHANGED <<svc, config>>
    /\ UNCHANGED slackvars

----------------------------------------------------------------------------
Next ==
    \/ \E b \in ApprovalBackend, raf \in PolicySets, mrl \in TierStrings,
          url \in BOOLEAN, token \in BOOLEAN, cust \in BOOLEAN :
          Construct(b, raf, mrl, url, token, cust)
    \/ \E t \in ToolNames : ClassifyCall(t)
    \/ \E t \in RegisteredTools, r \in TierStrings : RequiresApprovalCall(t, r)
    \/ \E t \in RegisteredTools, p \in Parameters, n \in Steps, c \in {""} :
          RequestApproval(t, p, n, c)
    \/ \E t \in CallTools, p \in Parameters, n \in Steps : Execute(t, p, n)
    \/ \E v \in CustomVerdicts : CustomApproverReturns(v)
    \/ CustomApproverFails
    \/ CustomApproverAborted
    \/ DelegateToBackend
    \/ \E ok \in BOOLEAN : SlackImport(ok)
    \/ \E sent \in {"ok", "failed", "abort"} : SlackPost(sent)
    \/ \E ok \in BOOLEAN : CLIDisplay(ok)
    \/ \E input \in OperatorInputs, took \in WaitTimes : CLIPrompt(input, took)
    \/ ReturnToCaller
    \/ ExecuteAfterApproval
    \/ \E outcome \in ToolOutcomes : InvokeTool(outcome)
    \/ Reset

Spec == Init /\ [][Next]_vars

\* Every blocking call of a decision ends: the custom approver returns or
\* raises, the import and requests.post (timeout=10, line 282) end, the console
\* prints, and the operator, asked often enough, gives an answer other than "d".
EnvironmentAnswers ==
    \/ \E v \in CustomVerdicts : CustomApproverReturns(v)
    \/ CustomApproverFails
    \/ CustomApproverAborted
    \/ DelegateToBackend
    \/ \E ok \in BOOLEAN : SlackImport(ok)
    \/ \E sent \in {"ok", "failed", "abort"} : SlackPost(sent)
    \/ \E ok \in BOOLEAN : CLIDisplay(ok)

OperatorDecides ==
    \E input \in OperatorInputs \ {"d"}, took \in WaitTimes : CLIPrompt(input, took)

FairSpec == Spec /\ WF_vars(EnvironmentAnswers) /\ SF_vars(OperatorDecides)

----------------------------------------------------------------------------
(* windows_use/slack: the listeners registered by SlackAgent, each run by    *)
(* slack_bolt on a listener thread; all of them share SlackAgent._agent_lock *)

\* a text is the sequence of its parts: a mention of a user, a run of white
\* space, or words
Whitespace == {" "}
\* the user id that auth_test reports for the bot, as a mention (lines 40-41)
BotMention == "<@BOT>"
\* text of an event before the handler cleans it
MessageTexts == {<<>>, <<" ">>, <<" ", "open notepad", " ">>}
\* text of an app_mention event, which holds the mention of the bot
MentionTexts == {<<BotMention>>, <<BotMention, " ">>,
                 <<BotMention, " ", "open notepad">>}

\* str.replace(old, ""), line 41
replace(text, old) ==
    LET Kept(part) == part # old
    IN  SelectSeq(text, Kept)

RECURSIVE lstrip(_)
lstrip(text) ==
    IF text # <<>> /\ Head(text) \in Whitespace THEN lstrip(Tail(text)) ELSE text

RECURSIVE rstrip(_)
rstrip(text) ==
    IF text # <<>> /\ text[Len(text)] \in Whitespace
    THEN rstrip(SubSeq(text, 1, Len(text) - 1))
    ELSE text

\* str.strip(), lines 41, 61 and 130
strip(text) == rstrip(lstrip(text))

Say(t, message) == [th[t] EXCEPT !.says = @ \o <<message>>]

\* mutant: the tests for an empty text are missing
BeginTask_NoEmptyCheck(t, handler, event, text) ==
    th' = [th EXCEPT ![t] =
              [Say(t, "executing") EXCEPT !.pc = "acquire", !.handler = handler,
                                          !.event = event, !.task = text]]

\* a handler call begins with task text; lines 43-47, 64-67 and 133-138
BeginTask(t, handler, event, text) ==
    IF text = <<>>
    THEN th' = [th EXCEPT ![t] =
                   [(IF handler = "handle_message" THEN th[t]
                     ELSE Say(t, IF handler = "handle_mention" THEN "hi" ELSE "usage"))
                    EXCEPT !.pc = "done", !.handler = handler, !.event = event,
                           !.exit = "returned"]]
    ELSE th' = [th EXCEPT ![t] =
                   [Say(t, "executing") EXCEPT !.pc = "acquire", !.handler = handler,
                                               !.event = event, !.task = text]]

\* the event of a mention or of a slash command, of which the handler reads
\* the text only
TextEvent(text) == [bot_id |-> FALSE, channel_type |-> "", text |-> text]

\* MessageHandler.handle_mention, lines 28-47 (and line 79); auth_test is a
\* call of the Slack API outside any try block, so when it raises the
\* handler is left at line 40
handle_mention(t, text, auth_ok) ==
    /\ th[t].pc = "idle"
    /\ IF auth_ok
       THEN BeginTask(t, "handle_mention", TextEvent(text),
                      strip(replace(text, BotMention)))
       ELSE th' = [th EXCEPT ![t].pc = "done", ![t].handler = "handle_mention",
                             ![t].event = TextEvent(text), ![t].exit = "raised"]
    /\ UNCHANGED <<lock, gatewayvars>>

\* MessageHandler.handle_message, lines 49-67 (and line 79)
handle_message(t, bot_id, channel_type, text) ==
    /\ th[t].pc = "idle"
    /\ IF bot_id \/ channel_type # "im"
       THEN th' = [th EXCEPT ![t].pc = "done", ![t].handler = "handle_message",
                             ![t].event = [bot_id |-> bot_id,
                                           channel_type |-> channel_type,
                                           text |-> text],
                             ![t].exit = "returned"]
       ELSE BeginTask(t, "handle_message",
                      [bot_id |-> bot_id, channel_type |-> channel_type,
                       text |-> text], strip(text))
    /\ UNCHANGED <<lock, gatewayvars>>

\* CommandHandler.handle_windows_command, lines 119-138
handle_windows_command(t, text) ==
    /\ th[t].pc = "idle"
    /\ BeginTask(t, "handle_windows_command", TextEvent(text), strip(text))
    /\ UNCHANGED <<lock, gatewayvars>>

\* CommandHandler.handle_status_command, lines 198-222
handle_status_command(t) ==
    /\ th[t].pc = "idle"
    /\ th' = [th EXCEPT ![t] =
                 [Say(t, IF lock # 0 THEN "busy" ELSE "ready")
                  EXCEPT !.pc = "done", !.handler = "handle_status_command",
                         !.exit = "returned"]]
    /\ UNCHANGED <<lock, gatewayvars>>

\* mutant: the lock is taken without waiting for it to be free
acquire_NoWait(t) ==
    /\ th[t].pc = "acquire"
    /\ lock' = t
    /\ th' = [th EXCEPT ![t].pc = "invoke", ![t].acquired = @ + 1]
    /\ UNCHANGED gatewayvars

\* lines 83 and 142: "with self.lock:" is entered when the lock is free
acquire(t) ==
    /\ th[t].pc = "acquire"
    /\ lock = 0
    /\ lock' = t
    /\ th' = [th EXCEPT ![t].pc = "invoke", ![t].acquired = @ + 1]
    /\ UNCHANGED gatewayvars

AgentOutcomes == {"result", "Exception", "KeyboardInterrupt"}

\* mutant: the lock is taken and released by hand, without a finally, so an
\* Exception of agent.invoke leaves it held
agent_invoke_KeepsLockOnError(t, outcome) ==
    /\ th[t].pc = "invoke"
    /\ CASE outcome = "result" ->
              /\ th' = [th EXCEPT ![t].pc = "respond", ![t].invoked = @ + 1]
              /\ UNCHANGED lock
         [] outcome = "Exception" ->
              /\ th' = [th EXCEPT ![t].pc = "except", ![t].invoked = @ + 1]
              /\ UNCHANGED lock
         [] OTHER ->
              /\ th' = [th EXCEPT ![t].pc = "done", ![t].invoked = @ + 1,
                                  ![t].exit = "raised"]
              /\ lock' = 0
    /\ UNCHANGED gatewayvars

\* lines 84 and 143: self.agent.invoke(task) ends; when it raises the with
\* block is left, which releases the lock, and an Exception reaches line 94
\* or 153
agent_invoke(t, outcome) ==
    /\ th[t].pc = "invoke"
    /\ CASE outcome = "result" ->
              /\ th' = [th EXCEPT ![t].pc = "respond", ![t].invoked = @ + 1]
              /\ UNCHANGED lock
         [] outcome = "Exception" ->
              /\ th' = [th EXCEPT ![t].pc = "except", ![t].invoked = @ + 1]
              /\ lock' = 0
         [] OTHER ->
              /\ th' = [th EXCEPT ![t].pc = "done", ![t].invoked = @ + 1,
                                  ![t].exit = "raised"]
              /\ lock' = 0
    /\ UNCHANGED gatewayvars

\* lines 87-92 and 146-151: say(response) inside the with block, which is
\* then left; sent says whether say returned or raised
say_response(t, sent) ==
    /\ th[t].pc = "respond"
    /\ IF sent
       THEN th' = [th EXCEPT ![t] = [Say(t, "completed") EXCEPT !.pc = "done",
                                                                !.exit = "returned"]]
       ELSE th' = [th EXCEPT ![t].pc = "except"]
    /\ lock' = 0
    /\ UNCHANGED gatewayvars

\* lines 94-100 and 153-159: the except branch reports the error; when this
\* say raises too, the exception leaves the handler
say_error(t, sent) ==
    /\ th[t].pc = "except"
    /\ IF sent
       THEN th' = [th EXCEPT ![t] = [Say(t, "error") EXCEPT !.pc = "done",
                                                           !.exit = "returned"]]
       ELSE th' = [th EXCEPT ![t].pc = "done", ![t].exit = "raised"]
    /\ UNCHANGED <<lock, gatewayvars>>

\* the handler call is over and the thread is free for the next event
handler_returns(t) ==
    /\ th[t].pc = "done"
    /\ th' = [th EXCEPT ![t] = IdleThread]
    /\ UNCHANGED <<lock, gatewayvars>>

SlackNext ==
    \/ \E t \in Threads, text \in MentionTexts, auth_ok \in BOOLEAN :
          handle_mention(t, text, auth_ok)
    \/ \E t \in Threads, bot_id \in BOOLEAN, channel_type \in {"im", "channel"},
          text \in MessageTexts : handle_message(t, bot_id, channel_type, text)
    \/ \E t \in Threads, text \in MessageTexts : handle_windows_command(t, text)
    \/ \E t \in Threads : handle_status_command(t)
    \/ \E t \in Threads : acquire(t)
    \/ \E t \in Threads, outcome \in AgentOutcomes : agent_invoke(t, outcome)
    \/ \E t \in Threads, sent \in BOOLEAN : say_response(t, sent)
    \/ \E t \in Threads, sent \in BOOLEAN : say_error(t, sent)
    \/ \E t \in Threads : handler_returns(t)

SlackSpec == Init /\ [][SlackNext]_vars

\* the steps of a handler call that the thread takes by itself: a thread that
\* can enter the with block does so, agent.invoke and say end, the handler
\* returns. threading.Lock leaves open which of several waiting threads
\* proceeds when the lock is released, so the entry of a waiting thread is
\* only weakly fair: a thread is owed the lock when it stays free, not when
\* other threads keep taking it.
TaskProgress(t) ==
    /\ WF_vars(acquire(t))
    /\ WF_vars(\E outcome \in AgentOutcomes : agent_invoke(t, outcome))
    /\ WF_vars(\E sent \in BOOLEAN : say_response(t, sent))
    /\ WF_vars(\E sent \in BOOLEAN : say_error(t, sent))
    /\ WF_vars(handler_returns(t))

SlackFairSpec == SlackSpec /\ \A t \in Threads : TaskProgress(t)

----------------------------------------------------------------------------
(* Reading the trace of a decision *)

Count(seq, e) == Cardinality({i \in DOMAIN seq : seq[i] = e})
Happened(e) == \E i \in DOMAIN trace : trace[i] = e
\* every e2 of the trace comes after some e1
Precedes(e1, e2) ==
    \A j \in DOMAIN trace : trace[j] = e2 => \E i \in 1..(j - 1) : trace[i] = e1

\* request_approval has ended, with a verdict or by raising
Decided == pc \in {"ra_return", "tool", "done"} /\ response.kind # "none"
Returned(result) == Decided /\ response.kind = "verdict" /\ response.result = result

\* policy answer for the arguments of the decision in progress
Consulted == requires_approval(args.tool_name, get_tool_risk_level(args.tool_name))

\* the operator answered the last prompt with the affirm choice: typed "y",
\* or pressed Enter on the empty line for which the prompt offers "y"
OperatorAffirmed == last_input \in {"y", ""}
CustomApproved == cust_outcome.kind = "verdict" /\ cust_outcome.result = APPROVED

----------------------------------------------------------------------------
(* C1: with a backend other than AUTO_APPROVE and an action that requires    *)
(* approval, request_approval returns APPROVED only if the custom approver   *)
(* returned APPROVED or the operator affirmed at the prompt; a failed send,  *)
(* a failed custom approver and an interrupted prompt do not approve.        *)
C1_ApprovedOnlyByApproverOrOperator ==
    (backend # AUTO_APPROVE /\ Consulted /\ Returned(APPROVED)) =>
        \/ CustomApproved /\ response = cust_outcome
        \/ /\ ~CustomApproved
           /\ OperatorAffirmed
           /\ last_input \notin Interruptions
           /\ Happened("prompt")
           /\ response = ApprovedViaCLI

\* approved by the operator after the custom approver and the send both failed
C1_Witness ==
    /\ pc = "done"
    /\ backend = SLACK
    /\ Returned(APPROVED)
    /\ cust_outcome.kind = "error"
    /\ Count(trace, "log: failed to send") = 1
    /\ last_input = "y"

----------------------------------------------------------------------------
(* C2: in Registry.execute with a gateway, the tool is invoked only after    *)
(* exactly one request_approval call of that execute returned APPROVED; on   *)
(* REJECTED or TIMEOUT the tool is never invoked and a failed ToolResult is  *)
(* returned.                                                                 *)
C2_ToolOnlyAfterApproval ==
    (caller = "registry" /\ hitl_service) =>
        /\ (pc = "tool" \/ tool_invocations > 0 \/ Happened("tool.invoke")) =>
              /\ Count(trace, "request_approval") = 1
              /\ response.kind = "verdict"
              /\ response.result = APPROVED
              /\ Precedes("request_approval", "tool.invoke")
        /\ tool_invocations <= 1
        /\ (pc = "done" /\ response.kind = "verdict"
                /\ response.result \in {REJECTED, TIMEOUT}) =>
              /\ tool_invocations = 0
              /\ ~Happened("tool.invoke")
              /\ tool_result.kind = "result"
              /\ ~tool_result.is_success

\* the tool ran after the operator approved the one request of this execute
C2_Witness ==
    /\ pc = "done"
    /\ caller = "registry"
    /\ hitl_service
    /\ backend = CLI
    /\ tool_invocations = 1
    /\ response = ApprovedViaCLI
    /\ tool_result = ToolResult(TRUE, <<>>)

----------------------------------------------------------------------------
(* C3: with backend AUTO_APPROVE request_approval returns APPROVED by        *)
(* "system" for every tool and every policy configuration, without          *)
(* classifying the tool, evaluating the policy, or invoking the custom       *)
(* approver or a backend.                                                    *)
C3_AutoApproveBypassesAll ==
    (backend = AUTO_APPROVE /\ Happened("request_approval")) =>
        /\ Decided
        /\ response.kind = "verdict"
        /\ response.result = APPROVED
        /\ response.approved_by = "system"
        /\ \A e \in {"classify", "policy", "custom_approver", "backend", "cli",
                     "import requests", "post", "post with buttons", "prompt"} :
               ~Happened(e)
        /\ cust_outcome = NoResponse
        /\ backend_outcome = NoResponse

\* a critical tool named in the explicit set, with a custom approver configured
C3_Witness ==
    /\ pc = "done"
    /\ backend = AUTO_APPROVE
    /\ custom_approver
    /\ ~require_approval_for.is_none
    /\ args.tool_name = "shell_tool"
    /\ args.tool_name \in require_approval_for.tools
    /\ response = AutoApproved

----------------------------------------------------------------------------
(* C4: when a custom approver is configured and the action requires          *)
(* consultation, the custom approver is invoked before the backend; when it  *)
(* returns a verdict, that verdict is returned unmodified and the backend    *)
(* is not invoked in that decision.                                          *)
C4_CustomApproverFirst ==
    /\ (custom_approver /\ Happened("request_approval")) =>
          /\ Precedes("custom_approver", "backend")
          /\ Precedes("custom_approver", "cli")
          /\ pc = "backend" => Happened("custom_approver")
          /\ Count(trace, "custom_approver") <= 1
    /\ (custom_approver /\ backend # AUTO_APPROVE /\ Consulted /\ Decided) =>
          Count(trace, "custom_approver") = 1
    /\ cust_outcome.kind = "verdict" =>
          /\ Decided
          /\ response = cust_outcome
          /\ ~Happened("backend")
          /\ ~Happened("cli")
          /\ ~Happened("prompt")
          /\ backend_outcome = NoResponse

\* the custom approver rejected a request and its verdict came back
C4_Witness ==
    /\ pc = "done"
    /\ caller = "direct"
    /\ cust_outcome = ApprovalResponse(REJECTED, "custom message", "custom_policy")
    /\ response = cust_outcome

----------------------------------------------------------------------------
(* C5: when the custom approver raises, request_approval neither propagates  *)
(* that failure nor approves on its own account: it invokes the configured   *)
(* backend exactly once and ends the way that backend did.                   *)
C5_CustomFailureFallsBack ==
    cust_outcome.kind = "error" =>
        /\ Count(trace, "backend") <= 1
        /\ Count(trace, "log: custom approver failed") = 1
        /\ Decided =>
              /\ Count(trace, "backend") = 1
              /\ response = backend_outcome
              /\ response # cust_outcome
              /\ Returned(APPROVED) => OperatorAffirmed /\ Happened("prompt")

\* the backend was asked after the failure and its rejection came back
C5_Witness ==
    /\ pc = "done"
    /\ cust_outcome.kind = "error"
    /\ Count(trace, "backend") = 1
    /\ response = RejectedViaCLI

----------------------------------------------------------------------------
(* C6: an interruption of the prompt (cancel or end of input), at the first  *)
(* prompt or after show-more rounds, makes the CLI backend return REJECTED,  *)
(* never APPROVED, and is not raised to the caller.                          *)
C6_InterruptionRejects ==
    last_input \in Interruptions =>
        /\ cli_outcome.kind = "verdict"
        /\ cli_outcome.result = REJECTED
        /\ backend_outcome = cli_outcome
        /\ response = cli_outcome
        /\ depth = 0
        /\ pc \in {"ra_return", "done"}

\* end of input after the operator asked for the full parameters
C6_Witness ==
    /\ last_input = "EOFError"
    /\ Count(trace, "show parameters") = MaxShowMore
    /\ cli_outcome = InterruptedByUser
    /\ pc = "done"

----------------------------------------------------------------------------
(* C7: the prompt never grants by default: the CLI backend returns APPROVED  *)
(* only when the operator explicitly enters the affirm input, REJECTED when  *)
(* the operator enters decline, and on show-more no verdict but the prompt   *)
(* again for the same request.                                               *)
C7_PromptNeverGrantsByDefault ==
    /\ (cli_outcome.kind = "verdict" /\ cli_outcome.result = APPROVED) => last_input = "y"
    /\ last_input = "n" => cli_outcome = RejectedViaCLI
    /\ last_input = "d" =>
          /\ cli_outcome.kind # "verdict"
          /\ pc = "cli_display" => request = BuildRequest(args)

----------------------------------------------------------------------------
(* C8: for the Slack backend, whether the send succeeds or fails and with    *)
(* or without a token, the decision is resolved by the interactive prompt:   *)
(* the backend ends the way the prompt did; a send failure is neither        *)
(* surfaced as the outcome nor turned into APPROVED.                         *)
Posted == Happened("post") \/ Happened("post with buttons")

----------------------------------------------------------------------------
(* C9: under threshold policy (no explicit set), for every tier T and every  *)
(* threshold H of low < medium < high < critical, requires_approval is true  *)
(* exactly when rank(T) >= rank(H).                                          *)
TierOrder == <<"low", "medium", "high", "critical">>
Rank(t) == CHOOSE i \in DOMAIN TierOrder : TierOrder[i] = t

C9_ThresholdPolicy ==
    (query.method = "requires_approval" /\ require_approval_for.is_none
        /\ query.risk_level \in Tiers /\ min_risk_level \in Tiers) =>
        (query.required <=> Rank(query.risk_level) >= Rank(min_risk_level))

\* the boundary case: tier equal to the threshold
C9_Witness ==
    /\ query.method = "requires_approval"
    /\ require_approval_for.is_none
    /\ min_risk_level = "medium"
    /\ query.risk_level = "medium"
    /\ query.required

----------------------------------------------------------------------------
(* C10: under explicit-set policy requires_approval(tool, tier) equals       *)
(* (tool is in the set) for every tier and every min_risk_level; an action   *)
(* absent from the set is auto-approved whatever its tier.                   *)
C10_ExplicitSetPolicy ==
    ~require_approval_for.is_none =>
        /\ query.method = "requires_approval" =>
              (query.required <=> query.tool_name \in require_approval_for.tools)
        /\ (backend # AUTO_APPROVE /\ Happened("policy")) =>
              IF args.tool_name \in require_approval_for.tools
              THEN request = BuildRequest(args) /\ response # AutoApprovedLowRisk
              ELSE response = AutoApprovedLowRisk /\ ~Happened("backend")
                       /\ ~Happened("custom_approver")

\* a critical action absent from the set, with the lowest threshold configured
C10_Witness ==
    /\ pc = "done"
    /\ require_approval_for = ExplicitSet({"scroll_tool"})
    /\ min_risk_level = "low"
    /\ backend = CLI
    /\ args.tool_name = "shell_tool"
    /\ get_tool_risk_level(args.tool_name) = "critical"
    /\ response = AutoApprovedLowRisk

----------------------------------------------------------------------------
(* C11: get_tool_risk_level is a total function of the tool name alone: it   *)
(* gives critical, high, medium or low for the members of the corresponding  *)
(* static set, the four sets being pairwise disjoint, and low for every      *)
(* other string.                                                             *)
StaticSets == {CRITICAL_RISK_TOOLS, HIGH_RISK_TOOLS, MEDIUM_RISK_TOOLS, LOW_RISK_TOOLS}

TierOfSet(S) ==
    CASE S = CRITICAL_RISK_TOOLS -> "critical"
      [] S = HIGH_RISK_TOOLS -> "high"
      [] S = MEDIUM_RISK_TOOLS -> "medium"
      [] OTHER -> "low"

TierByMembership(tool_name) ==
    IF \E S \in StaticSets : tool_name \in S
    THEN TierOfSet(CHOOSE S \in StaticSets : tool_name \in S)
    ELSE "low"

C11_ClassifierBySet ==
    /\ \A S1 \in StaticSets, S2 \in StaticSets : S1 # S2 => S1 \cap S2 = {}
    /\ query.method = "get_tool_risk_level" =>
          /\ query.risk_level \in Tiers
          /\ \A S \in StaticSets :
                query.tool_name \in S => query.risk_level = TierOfSet(S)
          /\ (\A S \in StaticSets : query.tool_name \notin S) => query.risk_level = "low"

\* a member of the medium set, classified while a gateway with the lowest
\* threshold exists
C11_Witness ==
    /\ query.method = "get_tool_risk_level"
    /\ query.tool_name = "shortcut_tool"
    /\ query.risk_level = "medium"
    /\ svc = "ready"
    /\ min_risk_level = "low"

----------------------------------------------------------------------------
(* C12: with a backend other than AUTO_APPROVE, threshold policy and no      *)
(* custom approver, a decision for a tier below the threshold returns        *)
(* APPROVED by "system" without invoking a backend, and a decision for a     *)
(* tier at or above the threshold invokes the configured backend exactly     *)
(* once and ends with what that backend gave, unmodified.                    *)
C12_ThresholdDecision ==
    (backend # AUTO_APPROVE /\ require_approval_for.is_none /\ ~custom_approver
        /\ min_risk_level \in Tiers /\ Happened("request_approval")) =>
        LET tier == TierByMembership(args.tool_name)
        IN  IF Rank(tier) < Rank(min_risk_level)
            THEN /\ Returned(APPROVED)
                 /\ response.approved_by = "system"
                 /\ ~Happened("backend")
                 /\ ~Happened("cli")
                 /\ ~Happened("prompt")
                 /\ backend_outcome = NoResponse
            ELSE /\ ~Happened("custom_approver")
                 /\ Count(trace, "backend") = (IF pc = "backend" THEN 0 ELSE 1)
                 /\ Decided => response = backend_outcome

\* the critical tool under threshold "high": the CLI backend was asked once
\* and its rejection came back
C12_Witness ==
    /\ pc = "done"
    /\ backend = CLI
    /\ require_approval_for.is_none
    /\ ~custom_approver
    /\ min_risk_level = "high"
    /\ args.tool_name = "shell_tool"
    /\ Count(trace, "backend") = 1
    /\ response = RejectedViaCLI

----------------------------------------------------------------------------
(* C13: constructing the gateway with the SLACK backend and no webhook URL   *)
(* raises, so that no gateway exists and nothing is ever decided or posted   *)
(* by a Slack backend without a URL; a gateway that exists with the SLACK    *)
(* backend has a SlackApprovalBackend holding the URL installed.             *)
C13_SlackNeedsWebhook ==
    /\ svc = "ctor_error" =>
          /\ backend = SLACK
          /\ approver = NoApprover
          /\ ~Happened("request_approval")
          /\ response = NoResponse
    /\ (svc = "ready" /\ backend = SLACK) =>
          /\ approver.kind = "SlackApprovalBackend"
          /\ approver.webhook_url
    /\ (pc \in {"slack_import", "slack_post"} \/ Posted) => approver.webhook_url

\* construction failed for want of the URL; the registry, left without a
\* gateway, then ran a tool with no decision being made
C13_Witness ==
    /\ svc = "ctor_error"
    /\ backend = SLACK
    /\ pc = "done"
    /\ tool_invocations = 1
    /\ response = NoResponse
    /\ trace = <<"tool.invoke">>

----------------------------------------------------------------------------
(* C14: when the verdict is REJECTED or TIMEOUT, Registry.execute returns a  *)
(* failed ToolResult whose error text carries the verdict's message, for     *)
(* both outcomes.                                                            *)
Contains(text, part) == \E i \in DOMAIN text : text[i] = part

C14_FailureReasonIsVerdictMessage ==
    (caller = "registry" /\ pc = "done" /\ response.kind = "verdict"
        /\ response.result \in {REJECTED, TIMEOUT}) =>
        /\ tool_result.kind = "result"
        /\ ~tool_result.is_success
        /\ Contains(tool_result.error, response.message)

----------------------------------------------------------------------------
(* C15: over all the Slack listeners that share the agent (mentions, direct  *)
(* messages, /windows commands), at most one call of agent.invoke, with the  *)
(* reply sent inside the same with block, is in flight at any time, and it   *)
(* belongs to the thread that holds the lock.                                *)
InFlight == {t \in Threads : th[t].pc \in {"invoke", "respond"}}

C15_OneCycleInFlight ==
    /\ Cardinality(InFlight) <= 1
    /\ \A t \in InFlight : lock = t
    /\ lock # 0 => lock \in InFlight

\* a mention is being executed by the agent while a /windows command that
\* arrived on another thread waits for the lock
C15_Witness ==
    \E t1 \in Threads, t2 \in Threads :
        /\ th[t1].pc = "invoke"
        /\ th[t1].handler = "handle_mention"
        /\ th[t2].pc = "acquire"
        /\ th[t2].handler = "handle_windows_command"
        /\ lock = t1

----------------------------------------------------------------------------
(* C16: a call of request_approval that returns gives a verdict whose        *)
(* outcome is APPROVED, REJECTED or TIMEOUT, never a pending one; and when   *)
(* the custom approver and the send end and the operator eventually answers  *)
(* other than "show more", every call that was started comes to its end.     *)
InDecision ==
    pc \in {"custom", "backend", "slack_import", "slack_post", "slack_wait",
            "cli_display", "cli_prompt"}

C16_TerminalVerdict ==
    /\ [](pc \in {"ra_return", "tool", "done"} /\ Happened("request_approval") =>
            /\ Decided
            /\ response.kind = "verdict" => response.result \in ApprovalResult)
    /\ (InDecision ~> Decided)

\* the operator asked for the parameters as often as is followed and then
\* declined
C16_Witness ==
    /\ pc = "done"
    /\ Count(trace, "show parameters") = MaxShowMore
    /\ Returned(REJECTED)
    /\ last_input = "n"

----------------------------------------------------------------------------
(* C17: when the run is aborted (KeyboardInterrupt) while a decision is      *)
(* pending, in the custom approver, during the send or at the prompt, the    *)
(* caller of request_approval gets a REJECTED or TIMEOUT verdict: never      *)
(* APPROVED and never no verdict.                                            *)
AbortedWhilePending ==
    \/ cust_outcome = Aborted
    \/ backend_outcome = Aborted
    \/ last_input = "KeyboardInterrupt"

C17_AbortResolvesToVerdict ==
    (Decided /\ AbortedWhilePending) =>
        /\ response.kind = "verdict"
        /\ response.result \in {REJECTED, TIMEOUT}

----------------------------------------------------------------------------
(* C18: whenever the custom approver, the send to Slack or the interactive   *)
(* prompt fails with an error, request_approval still ends with a verdict    *)
(* for its caller and not with the error.                                    *)
FaultInDecision ==
    \/ cust_outcome.kind = "error"
    \/ Happened("log: failed to send")
    \/ Happened("display failed")
    \/ last_input \in Interruptions

C18_NoFaultPropagates ==
    (Decided /\ FaultInDecision) => response.kind = "verdict"

----------------------------------------------------------------------------
(* C19: the ApprovalRequest handed to the custom approver or to a backend    *)
(* has the tier that the classifier gives for its own tool name, and its     *)
(* tool name, description, parameters, step number and context are the       *)
(* arguments of the call.                                                    *)
HandedOver == InDecision \/ Happened("custom_approver") \/ Happened("backend")

C19_RequestCarriesClassifiedTier ==
    /\ HandedOver =>
          /\ request.risk_level = TierByMembership(request.tool_name)
          /\ request.tool_name = args.tool_name
          /\ request.tool_description = args.tool_description
          /\ request.parameters = args.parameters
          /\ request.step_number = args.step_number
          /\ request.context = args.context
    /\ request # NoRequest => request.tool_name \in CallTools

\* the request for the critical tool, called through the registry at the
\* last step number, is in the hands of the custom approver
C19_Witness ==
    /\ pc = "custom"
    /\ caller = "registry"
    /\ request.tool_name = "shell_tool"
    /\ request.risk_level = "critical"
    /\ request.step_number = MaxStep
    /\ request.context = "Agent requesting to execute"

----------------------------------------------------------------------------
(* C20: no step of request_approval or requires_approval changes the         *)
(* gateway's configuration: backend, explicit set, threshold, custom         *)
(* approver and installed backend object stay as the constructor left them.  *)
C20_ConfigurationFrame ==
    [][svc = "ready" => (svc' = "ready" /\ config' = config)]_vars

\* a decision in which the custom approver failed and the backend decided
\* has ended, and the gateway still has its custom approver
C20_Witness ==
    /\ pc = "done"
    /\ svc = "ready"
    /\ custom_approver
    /\ cust_outcome.kind = "error"
    /\ Returned(APPROVED)
    /\ backend = SLACK

----------------------------------------------------------------------------
(* C21: the verdict given because the policy does not require consultation   *)
(* is APPROVED by "system", its message contains "Auto-approved" and is not  *)
(* the message of the AUTO_APPROVE backend's verdict, so that each of the    *)
(* two verdicts tells which path produced it.                                *)
PolicyPath == backend # AUTO_APPROVE /\ Happened("request_approval") /\ ~Consulted
AutoApprovePath == backend = AUTO_APPROVE /\ Happened("request_approval")

C21_AutoApprovalsDistinguishable ==
    /\ PolicyPath =>
          /\ Returned(APPROVED)
          /\ response.approved_by = "system"
          /\ Contains(message_parts(response.message), "Auto-approved")
          /\ response.message # AutoApproved.message
          /\ response # AutoApproved
    /\ AutoApprovePath =>
          /\ Returned(APPROVED)
          /\ response.approved_by = "system"
          /\ Contains(message_parts(response.message), "Auto-approved")
          /\ response # AutoApprovedLowRisk
    /\ (Decided /\ response = AutoApprovedLowRisk) => PolicyPath
    /\ (Decided /\ response = AutoApproved) => AutoApprovePath

\* the policy let a low tier action through under threshold "high"
C21_Witness ==
    /\ pc = "done"
    /\ backend = CLI
    /\ require_approval_for.is_none
    /\ min_risk_level = "high"
    /\ args.tool_name = "scroll_tool"
    /\ response.message = "Auto-approved (low risk)"
    /\ response.approved_by = "system"

----------------------------------------------------------------------------
(* C22: every decision of request_approval that returns a verdict, on the    *)
(* AUTO_APPROVE path, the policy path, the custom approver path and the      *)
(* backend path alike, has logged the verdict and the approver before it     *)
(* returns.                                                                  *)
C22_EveryVerdictLogged ==
    (Decided /\ response.kind = "verdict") => Happened("log: decision")

----------------------------------------------------------------------------
----------------------------------------------------------------------------
(* C24: in one call of the Slack backend the message is posted at most once, *)
(* and the operator is shown the panel and prompted only after the post      *)
(* attempt has succeeded or failed.                                          *)
SendOutcomeLogged(j) ==
    \E i \in 1..(j - 1) : trace[i] \in {"log: sent to Slack", "log: failed to send"}

C24_PostOnceBeforePrompt ==
    approver.kind = "SlackApprovalBackend" =>
        /\ Count(trace, "post") + Count(trace, "post with buttons") <= 1
        /\ Precedes(PostEvent, "display")
        /\ Precedes(PostEvent, "prompt")
        /\ Precedes(PostEvent, "cli")
        /\ \A j \in DOMAIN trace : trace[j] \in {"display", "prompt"} => SendOutcomeLogged(j)
        /\ pc \in {"cli_display", "cli_prompt"} => Posted

\* the send failed once, the operator looked at the parameters and approved
C24_Witness ==
    /\ approver.kind = "SlackApprovalBackend"
    /\ pc = "done"
    /\ Count(trace, PostEvent) = 1
    /\ Happened("log: failed to send")
    /\ Happened("show parameters")
    /\ Returned(APPROVED)

----------------------------------------------------------------------------
(* C25: in one call of the Slack backend that got as far as the post, the    *)
(* CLI backend is entered exactly once, whether the send succeeded or        *)
(* failed, and also when the CLI backend itself raised after a successful    *)
(* send.                                                                     *)
CLIEntries == Count(trace, "cli") - Count(trace, "show parameters")

C25_PromptEnteredOnce ==
    (approver.kind = "SlackApprovalBackend" /\ Posted /\ Decided
        /\ backend_outcome.kind # "abort") => CLIEntries = 1

----------------------------------------------------------------------------
----------------------------------------------------------------------------
(* C27: with an explicit set that is configured but empty the explicit-set   *)
(* policy applies: requires_approval is false for every tool and tier, and   *)
(* with a backend other than AUTO_APPROVE every action, the critical one     *)
(* included, is approved by "system" with neither the custom approver nor    *)
(* the backend being called.                                                 *)
C27_EmptySetApprovesAll ==
    require_approval_for = ExplicitSet({}) =>
        /\ query.method = "requires_approval" => ~query.required
        /\ (backend # AUTO_APPROVE /\ Happened("request_approval")) =>
              /\ Returned(APPROVED)
              /\ response.approved_by = "system"
              /\ ~Happened("custom_approver")
              /\ ~Happened("backend")
              /\ ~Happened("prompt")

\* the critical tool under the lowest threshold, a custom approver being
\* configured
C27_Witness ==
    /\ require_approval_for = ExplicitSet({})
    /\ min_risk_level = "low"
    /\ custom_approver
    /\ backend = CLI
    /\ pc = "done"
    /\ args.tool_name = "shell_tool"
    /\ Returned(APPROVED)
    /\ response.approved_by = "system"

----------------------------------------------------------------------------
(* C28: under threshold policy a min_risk_level that is no tier name counts  *)
(* as threshold high and a risk_level argument that is no tier name counts   *)
(* as tier medium; the constructor takes any string as min_risk_level.       *)
AsThreshold(level) == IF level \in Tiers THEN level ELSE "high"
AsTier(level) == IF level \in Tiers THEN level ELSE "medium"

C28_UnknownNamesDefault ==
    /\ (query.method = "requires_approval" /\ require_approval_for.is_none) =>
          (query.required <=>
              Rank(AsTier(query.risk_level)) >= Rank(AsThreshold(min_risk_level)))
    /\ svc = "ctor_error" => backend = SLACK
    /\ (backend # AUTO_APPROVE /\ require_approval_for.is_none
          /\ Happened("request_approval")) =>
          (Consulted <=>
              Rank(TierByMembership(args.tool_name)) >= Rank(AsThreshold(min_risk_level)))

\* neither the threshold nor the tier argument is a tier name: medium is
\* below high
C28_Witness ==
    /\ svc = "ready"
    /\ min_risk_level = "severe"
    /\ query.method = "requires_approval"
    /\ query.risk_level = "severe"
    /\ require_approval_for.is_none
    /\ ~query.required

----------------------------------------------------------------------------
(* C29: when the requests library cannot be imported the Slack backend       *)
(* returns REJECTED with approved_by "system": nothing is posted and the     *)
(* operator is not prompted.                                                 *)
C29_MissingLibraryRejects ==
    Happened("log: requests required") =>
        /\ approver.kind = "SlackApprovalBackend"
        /\ backend_outcome.kind = "verdict"
        /\ backend_outcome.result = REJECTED
        /\ backend_outcome.approved_by = "system"
        /\ response = backend_outcome
        /\ ~Posted
        /\ ~Happened("cli")
        /\ ~Happened("display")
        /\ ~Happened("prompt")
        /\ last_input = "none"
        /\ cli_outcome = NoResponse

\* through the registry: the critical tool was refused and not run
C29_Witness ==
    /\ Happened("log: requests required")
    /\ caller = "registry"
    /\ pc = "done"
    /\ args.tool_name = "shell_tool"
    /\ Returned(REJECTED)
    /\ tool_invocations = 0

----------------------------------------------------------------------------
(* C30: a gateway with the WEBHOOK backend is constructed without error,     *)
(* with or without a URL; what its backend decides is decided by the CLI     *)
(* prompt, and nothing is ever posted for it.                                *)
C30_WebhookIsPromptOnly ==
    backend = WEBHOOK =>
        /\ svc # "ctor_error"
        /\ svc = "ready" => approver = CLIApprovalBackend
        /\ ~Posted
        /\ ~Happened("import requests")
        /\ pc \notin {"slack_import", "slack_post"}
        /\ Happened("backend") => Happened("cli")
        /\ backend_outcome.kind = "verdict" =>
              /\ backend_outcome = cli_outcome
              /\ Happened("prompt")
              /\ backend_outcome.approved_by = "human"

\* the operator declined at the prompt of a WEBHOOK gateway
C30_Witness ==
    /\ backend = WEBHOOK
    /\ pc = "done"
    /\ ~custom_approver
    /\ Consulted
    /\ last_input = "n"
    /\ Returned(REJECTED)
    /\ response = RejectedViaCLI

----------------------------------------------------------------------------
(* C31: whenever request_approval reaches the delegation to the backend the  *)
(* installed backend object is present; the one configuration that installs  *)
(* none, AUTO_APPROVE, has returned before that step.                        *)
C31_BackendPresentAtDelegation ==
    /\ (pc = "backend" \/ Happened("log: requesting approval")) =>
          /\ approver # NoApprover
          /\ approver.kind \in {"CLIApprovalBackend", "SlackApprovalBackend"}
          /\ backend # AUTO_APPROVE
          /\ backend_outcome # Raised("AttributeError")
    /\ (svc = "ready" /\ approver = NoApprover) =>
          /\ backend = AUTO_APPROVE
          /\ Happened("request_approval") =>
                /\ trace[1] = "request_approval"
                /\ ~Happened("policy")
                /\ Returned(APPROVED)

\* the custom approver of a WEBHOOK gateway failed and the call stands at
\* the delegation
C31_Witness ==
    /\ pc = "backend"
    /\ backend = WEBHOOK
    /\ cust_outcome.kind = "error"
    /\ approver = CLIApprovalBackend

----------------------------------------------------------------------------
(* C33: Registry.execute for a tool name that is not registered returns a    *)
(* failed ToolResult saying that the tool was not found; the gateway is not  *)
(* asked and no tool is invoked.                                             *)
C33_UnknownToolFailsWithoutGateway ==
    (caller = "registry" /\ args.tool_name \notin RegisteredTools) =>
        /\ pc = "done"
        /\ tool_result.kind = "result"
        /\ ~tool_result.is_success
        /\ Contains(tool_result.error, "' not found.")
        /\ Contains(tool_result.error, args.tool_name)
        /\ trace = <<>>
        /\ request = NoRequest
        /\ response = NoResponse
        /\ tool_invocations = 0

\* a gateway that would consult the operator for every tool is installed
C33_Witness ==
    /\ svc = "ready"
    /\ backend = CLI
    /\ require_approval_for.is_none
    /\ min_risk_level = "low"
    /\ caller = "registry"
    /\ args.tool_name = "missing_tool"
    /\ pc = "done"
    /\ ~tool_result.is_success

----------------------------------------------------------------------------
(* C34: the Slack handlers call agent.invoke only for a task text that is    *)
(* not empty: a message written by a bot, a message outside a direct-message *)
(* channel, a mention with nothing left after the mention of the bot, and a  *)
(* /windows command with empty text never take the lock and never call       *)
(* agent.invoke.                                                             *)
\* the task text that the handler of thread t makes of its event
TaskText(t) ==
    IF th[t].handler = "handle_mention"
    THEN strip(replace(th[t].event.text, BotMention))
    ELSE strip(th[t].event.text)

Ignorable(t) ==
    \/ /\ th[t].handler = "handle_message"
       /\ th[t].event.bot_id \/ th[t].event.channel_type # "im"
    \/ /\ th[t].handler \in {"handle_mention", "handle_message",
                             "handle_windows_command"}
       /\ TaskText(t) = <<>>

TouchedAgent(t) ==
    \/ th[t].pc \in {"acquire", "invoke", "respond", "except"}
    \/ th[t].acquired > 0
    \/ th[t].invoked > 0
    \/ lock = t

C34_AgentOnlyForNonEmptyTask ==
    \A t \in Threads :
        /\ Ignorable(t) => /\ ~TouchedAgent(t)
                           /\ th[t].pc = "done"
        /\ TouchedAgent(t) => /\ th[t].task # <<>>
                              /\ th[t].task = TaskText(t)
                              /\ \E i \in 1..Len(th[t].task) :
                                    th[t].task[i] \notin Whitespace
        /\ th[t].handler = "handle_status_command" => ~TouchedAgent(t)

\* while a task of one thread is executed by the agent, another thread has
\* returned from a direct message whose text was blank
C34_Witness ==
    \E t1 \in Threads, t2 \in Threads :
        /\ th[t1].pc = "invoke"
        /\ th[t1].invoked = 0
        /\ th[t2].handler = "handle_message"
        /\ th[t2].event = [bot_id |-> FALSE, channel_type |-> "im", text |-> <<" ">>]
        /\ th[t2].pc = "done"
        /\ th[t2].says = <<>>

----------------------------------------------------------------------------
(* C32: the agent lock is released on every exit of a task execution, also   *)
(* when agent.invoke or sending the reply fails, and it is free whenever no  *)
(* task is executing; provided each agent.invoke terminates, every task that *)
(* waits for the lock eventually runs.                                       *)
Waiting == {t \in Threads : th[t].pc = "acquire"}

LockFreeOutsideExecution ==
    /\ InFlight = {} => lock = 0
    /\ \A t \in Threads : th[t].pc \in {"idle", "acquire", "except", "done"} => lock # t

C32_EveryWaitingTaskRuns ==
    /\ []LockFreeOutsideExecution
    /\ \A t \in Threads : (th[t].pc = "acquire") ~> (th[t].pc = "invoke")

(* C32, as the code has it: the lock is released on every exit of a task     *)
(* execution and is free whenever no task is executing; every holder gives   *)
(* the lock up, and while tasks wait and the lock is free one of them takes  *)
(* it, so a failed task never blocks later tasks. Which waiting task takes   *)
(* the lock is not fixed: one task can be overtaken by later ones each time. *)
C32_FailedTaskNeverBlocks ==
    /\ []LockFreeOutsideExecution
    /\ (lock # 0) ~> (lock = 0)
    /\ (Waiting # {} /\ lock = 0) ~> (lock \in Threads)

\* agent.invoke of one task has raised, its except branch is about to report
\* the error, and a task of another thread waits for the lock, which is free
C32_Witness ==
    \E t1 \in Threads, t2 \in Threads :
        /\ th[t1].pc = "except"
        /\ th[t1].invoked = 1
        /\ th[t1].acquired = 1
        /\ th[t2].pc = "acquire"
        /\ lock = 0

====
